---- MODULE Spec2Model ----
\* A model of the notebook view (public/scripts/views/notebook.js): the ordered
\* cell registry (the Backbone collection), the presentation (the child nodes
\* of the notebook element), the per-cell event handlers registered by
\* appendView, the sequential execution pipeline, render and the debounced
\* save.
EXTENDS Integers, Sequences, FiniteSets, TLC

\* ---------------------------------------------------------------- bounds
\* Cells ever created by one notebook view.
MaxCells == 2
\* Calls of Notebook.prototype.execute.
MaxRuns == 2
\* Calls of Notebook.prototype.render.
MaxRenders == 2
\* Sandbox calls recorded for one run.
MaxLog == 3
\* Cells of a notebook taken in mid-life.
MaxLen == 4
\* Cells of a notebook on which execute is called.
MaxRunLen == 3

\* Cell contents (the empty text and one non-empty text).
Values == {"", "a"}
\* The value of _uniqueCellId on a model that never received one.
NoId == 0 - 1
\* The notebooks a fetch of the gist can bring back, as deserializeFromGist
\* returns them: sequences of {type, value} records.
FetchedNotebooks ==
  { <<>>,
    << [type |-> "code", value |-> "a"] >>,
    << [type |-> "text", value |-> "a"], [type |-> "code", value |-> ""] >> }

VARIABLES
  cells,       \* model/view pairs that are alive: cid -> [type, value, cursor, uid]
  dom,         \* this.el.childNodes: the cells' elements in presentation order
  coll,        \* this.collection.models: the registry, in registry order
  uniqueId,    \* this._uniqueId
  nextCid,     \* the identity the next created model/view receives
  focus,       \* the cell whose editor has the focus (0: none)
  rendering,   \* this.rendering
  execution,   \* this.execution
  timer,       \* the debounce timer of saveGist is pending
  fetching,    \* gist.fetch calls whose success/error callback has not run
  renders,     \* calls of render so far
  runs,        \* the runs started by execute, in call order
  ids,         \* history: the ids handed out by appendView, in order
  last,        \* history: the last operation, its inputs and what it did
  budget,      \* the cells, the renders and the runs this life may see
  released,    \* Notebook.prototype.remove has run: the sandbox is removed
  peer         \* another notebook's save is what the shared saveGist timer holds

vars == << cells, dom, coll, uniqueId, nextCid, focus, rendering, execution,
           timer, fetching, renders, runs, ids, last, budget, released, peer >>

\* ------------------------------------------------------- sequence helpers
Range(s) == { s[i] : i \in 1..Len(s) }

IndexOf(s, x) == IF x \in Range(s) THEN CHOOSE i \in 1..Len(s) : s[i] = x ELSE 0

Without(s, x) == SelectSeq(s, LAMBDA y : y # x)

\* lib/insert-after: el becomes the next sibling of before.
InsertAfter(s, x, before) ==
  LET i == IndexOf(s, before)
  IN  SubSeq(s, 1, i) \o << x >> \o SubSeq(s, i + 1, Len(s))

\* Node.insertBefore(el, el.previousSibling): el trades places with the node
\* in front of it.
SwapWithPrev(s, x) ==
  LET i == IndexOf(s, x)
  IN  [ s EXCEPT ![i - 1] = s[i], ![i] = s[i - 1] ]

\* insertAfter(el, el.nextSibling): el trades places with the node after it.
SwapWithNext(s, x) ==
  LET i == IndexOf(s, x)
  IN  [ s EXCEPT ![i + 1] = s[i], ![i] = s[i + 1] ]

\* ------------------------------------------------------------ collection
\* collection.getNext / getPrev: the adjacent model in registry order, none
\* (0) at the boundaries and for a model the collection does not hold.
GetNext(c, x) ==
  LET i == IndexOf(c, x)
  IN  IF i = 0 \/ i = Len(c) THEN 0 ELSE c[i + 1]

GetPrev(c, x) ==
  LET i == IndexOf(c, x)
  IN  IF i <= 1 THEN 0 ELSE c[i - 1]

\* A getNextView that would follow the order in which the views were
\* created, whatever the registry has become.
GetNextViewByCreation(n, view) == IF view + 1 \in Range(n.coll) THEN view + 1 ELSE 0

\* Notebook.prototype.getNextView / getPrevView: the view of the adjacent
\* model of the registry as it is now.
GetNextView(n, view) == GetNext(n.coll, view)

GetPrevView(n, view) == GetPrev(n.coll, view)

\* The order collection.sort() gives: the models whose element is mounted,
\* in presentation order, after the models whose element is not mounted.
SortedBy(c, d) ==
  SelectSeq(c, LAMBDA x : x \notin Range(d)) \o SelectSeq(d, LAMBDA x : x \in Range(c))

\* collection.serializeForGist: one {type, value} record per model, in order.
Serialize(n) ==
  [ i \in 1..Len(n.coll) |->
      [type |-> n.cells[n.coll[i]].type, value |-> n.cells[n.coll[i]].value] ]

\* trim.right(gist) is empty: nothing but white space is serialized.
IsBlank(g) == \A i \in 1..Len(g) : g[i].value = ""

\* ------------------------------------------------- the notebook's state
\* The fields the notebook's synchronous code reads and writes, as one
\* record, so that a handler is the composition of the calls it makes.
Cur ==
  [ cells |-> cells, dom |-> dom, coll |-> coll, uniqueId |-> uniqueId,
    nextCid |-> nextCid, focus |-> focus, rendering |-> rendering,
    execution |-> execution, timer |-> timer, ids |-> ids,
    error |-> FALSE, handedOff |-> FALSE, sent |-> << >>, shown |-> 0 ]

\* Notebook.prototype.save: ask for a (debounced) save unless rendering.
Save(n) == IF n.rendering THEN n ELSE [ n EXCEPT !.timer = TRUE ]

\* collection.sort(): re-derive the registry order; raises `sort`.
SortCollection(n) == Save([ n EXCEPT !.coll = SortedBy(n.coll, n.dom) ])

\* collection.remove(model): raises `remove` when the model was held.
CollectionRemove(n, c) ==
  IF c \in Range(n.coll) THEN Save([ n EXCEPT !.coll = Without(n.coll, c) ]) ELSE n

\* view.setValue(value): the model's value follows the editor; the collection
\* raises `change` when the value differs from the one held.
SetValue(n, c, v) ==
  IF n.cells[c].value = v THEN n
  ELSE Save([ n EXCEPT !.cells[c].value = v ])

\* view.focus()
Focus(n, c) == [ n EXCEPT !.focus = c ]

\* view.moveCursorToEnd() and view.moveCursorToEnd(0)
MoveCursorToEnd(n, c) == [ n EXCEPT !.cells[c].cursor = Len(n.cells[c].value) ]

MoveCursorToStart(n, c) == [ n EXCEPT !.cells[c].cursor = 0 ]

\* view.editor.setCursor(cursor)
SetCursor(n, c, k) ==
  [ n EXCEPT !.cells[c].cursor = IF k <= Len(n.cells[c].value) THEN k ELSE Len(n.cells[c].value) ]

\* The id appendView gives a model of this type.
CellId(n, type) == IF type = "code" THEN n.uniqueId ELSE NoId

\* A counter that appendView would leave where it is.
NextUniqueIdStuck(n, type) == n.uniqueId

\* The counter after appendView gave a model of this type its id.
NextUniqueId(n, type) == IF type = "code" THEN n.uniqueId + 1 ELSE n.uniqueId

\* Where appendTo mounts the element: after `before`, or at the end.
Mount(d, c, before) == IF before # 0 THEN InsertAfter(d, c, before) ELSE Append(d, c)

\* Notebook.prototype.appendView(view, before), view = [type, value, cursor].
\* The new model/view pair receives the identity n.nextCid.
AppendView(n, view, before) ==
  LET c   == n.nextCid
      uid == CellId(n, view.type)
      rec == [ type |-> view.type, value |-> view.value, cursor |-> view.cursor,
               uid |-> uid ]
      n1  == [ n EXCEPT !.cells = (c :> rec) @@ n.cells,
                        !.uniqueId = NextUniqueId(n, view.type),
                        !.ids = IF view.type = "code" THEN Append(@, uid) ELSE @,
                        !.nextCid = c + 1,
                        !.dom = Mount(n.dom, c, before),
                        !.coll = Append(n.coll, c) ]
  IN  IF before # 0 THEN SortCollection(n1) ELSE n1

\* Notebook.prototype.appendCodeView(el, value)
AppendCodeView(n, before, value) ==
  LET c == n.nextCid
  IN  MoveCursorToEnd(
        SetValue(AppendView(n, [type |-> "code", value |-> "", cursor |-> 0], before), c, value),
        c)

\* Notebook.prototype.appendTextView(el, value)
AppendTextView(n, before, value) ==
  LET c == n.nextCid
  IN  MoveCursorToEnd(
        SetValue(AppendView(n, [type |-> "text", value |-> "", cursor |-> 0], before), c, value),
        c)

\* The view the `remove` handler focuses: the next one, or the previous one.
RemoveFocusTarget(n, c) ==
  IF GetNextView(n, c) # 0 THEN GetNextView(n, c) ELSE GetPrevView(n, c)

\* A `remove` handler that would replace nothing but an empty presentation.
NeedsReplacementWhenEmpty(n) == Len(n.dom) < 1

\* The `remove` handler asks for a replacement code cell.
NeedsReplacement(n) == Len(n.dom) < 2

\* A `remove` handler that would never append a replacement.
RemoveHandlerNoReplacement(n, c) ==
  LET newView == RemoveFocusTarget(n, c)
      n2      == IF newView # 0 THEN MoveCursorToEnd(Focus(n, newView), newView) ELSE n
  IN  CollectionRemove(n2, c)

\* The `remove` handler.
RemoveHandler(n, c) ==
  LET n1      == IF NeedsReplacement(n) THEN AppendCodeView(n, c, "") ELSE n
      newView == RemoveFocusTarget(n1, c)
      n2      == IF newView # 0 THEN MoveCursorToEnd(Focus(n1, newView), newView) ELSE n1
  IN  CollectionRemove(n2, c)

\* view.remove(): the view raises `remove`, then its element leaves the
\* document.
ViewRemove(n, c) ==
  LET n1 == RemoveHandler(n, c)
  IN  [ n1 EXCEPT !.dom = Without(n1.dom, c),
                  !.focus = IF n1.focus = c THEN 0 ELSE n1.focus ]

\* The variant a `switch` turns a cell of this type into.
Opposite(type) == IF type = "text" THEN "code" ELSE "text"

\* A `switch` handler that would leave the cursor of the new cell alone.
SwitchHandlerNoCursor(n, c) ==
  LET newView == n.nextCid
      n1      == IF Opposite(n.cells[c].type) = "code"
                 THEN AppendCodeView(n, c, n.cells[c].value)
                 ELSE AppendTextView(n, c, n.cells[c].value)
  IN  Focus(ViewRemove(n1, c), newView)

\* The `switch` handler.
SwitchHandler(n, c) ==
  LET newView == n.nextCid
      n1      == IF Opposite(n.cells[c].type) = "code"
                 THEN AppendCodeView(n, c, n.cells[c].value)
                 ELSE AppendTextView(n, c, n.cells[c].value)
      cursor  == n1.cells[c].cursor
      n2      == ViewRemove(n1, c)
  IN  SetCursor(Focus(n2, newView), newView, cursor)

\* The `clone` handler; the clone is a view of the same variant and content.
CloneHandler(n, c) ==
  LET clone  == n.nextCid
      n1     == AppendView(n, [ type |-> n.cells[c].type, value |-> n.cells[c].value,
                                cursor |-> 0 ], c)
      cursor == n1.cells[c].cursor
  IN  SetCursor(Focus(n1, clone), clone, cursor)

\* A `moveUp` handler that would focus, sort and save wherever the cell is.
MoveUpHandlerUnguarded(n, c) ==
  SortCollection(Focus([ n EXCEPT !.dom = IF IndexOf(n.dom, c) <= 1 THEN n.dom
                                            ELSE SwapWithPrev(n.dom, c) ], c))

\* The `moveUp` and `moveDown` handlers.
MoveUpHandler(n, c) ==
  IF IndexOf(n.dom, c) <= 1 THEN n
  ELSE SortCollection(Focus([ n EXCEPT !.dom = SwapWithPrev(n.dom, c) ], c))

MoveDownHandler(n, c) ==
  IF IndexOf(n.dom, c) = 0 \/ IndexOf(n.dom, c) = Len(n.dom) THEN n
  ELSE SortCollection(Focus([ n EXCEPT !.dom = SwapWithNext(n.dom, c) ], c))

\* The `navigateUp` and `navigateDown` handlers.
NavigateUpHandler(n, c) ==
  LET prevView == GetPrevView(n, c)
  IN  IF prevView # 0 THEN MoveCursorToEnd(Focus(n, prevView), prevView) ELSE n

NavigateDownHandler(n, c) ==
  LET nextView == GetNextView(n, c)
  IN  IF nextView # 0 THEN MoveCursorToStart(Focus(n, nextView), nextView) ELSE n

\* getNextView(view).moveCursorToEnd(0).focus(): a TypeError when there is
\* no next view.
FocusNextAtStart(n, c) ==
  LET nextView == GetNextView(n, c)
  IN  IF nextView = 0 THEN [ n EXCEPT !.error = TRUE ]
      ELSE Focus(MoveCursorToStart(n, nextView), nextView)

\* A `code` handler that would insert a code cell for its code alone.
CodeInsertsForCode(n, c, code) == code # ""

\* The `code` handler inserts a code cell.
CodeInserts(n, c, code) == code # "" \/ (Len(n.dom) > 0 /\ n.dom[Len(n.dom)] = c)

\* The `code` handler of a text cell.
CodeHandler(n, c, code) ==
  LET n1 == IF CodeInserts(n, c, code) THEN AppendCodeView(n, c, code) ELSE n
      n2 == FocusNextAtStart(n1, c)
  IN  IF n2.error THEN n2
      ELSE IF n2.cells[c].value = "" THEN ViewRemove(n2, c) ELSE n2

\* The `text` handler of a code cell.
TextHandler(n, c, text) ==
  LET newView == n.nextCid
      n1 == Focus(AppendTextView(n, c, text), newView)
  IN  IF n1.cells[c].value = "" THEN ViewRemove(n1, c) ELSE n1

\* The `execute` handler of a code cell.
ExecuteHandler(n, c) ==
  IF n.execution THEN n
  ELSE IF Len(n.dom) > 0 /\ n.dom[Len(n.dom)] = c
       THEN Focus(AppendCodeView(n, 0, ""), n.nextCid)
       ELSE FocusNextAtStart(n, c)

\* A `browseUp` loop that would stop at the first model of any type.
ScanPrevAnyType(n, m) == GetPrev(n.coll, m)

\* The loops of the `browseUp` and `browseDown` handlers: the first code
\* model met going backward (forward) from model m, 0 when there is none.
RECURSIVE ScanPrev(_, _)
ScanPrev(n, m) ==
  LET p == GetPrev(n.coll, m)
  IN  IF p = 0 THEN 0
      ELSE IF n.cells[p].type = "code" THEN p ELSE ScanPrev(n, p)

RECURSIVE ScanNext(_, _)
ScanNext(n, m) ==
  LET p == GetNext(n.coll, m)
  IN  IF p = 0 THEN 0
      ELSE IF n.cells[p].type = "code" THEN p ELSE ScanNext(n, p)

\* view.browseToCell(model): the view is told to show the model's content.
BrowseToCell(n, c, m) == [ n EXCEPT !.shown = m ]

\* The `browseUp` and `browseDown` handlers; r is currentCid.
BrowseUpHandler(n, c, r) ==
  LET m == ScanPrev(n, r)
  IN  IF m = 0 THEN n
      ELSE [ BrowseToCell(n, c, m) EXCEPT !.cells[c].cursor = Len(n.cells[m].value) ]

BrowseDownHandler(n, c, r) ==
  LET m == ScanNext(n, r)
  IN  IF m = 0 THEN n
      ELSE [ BrowseToCell(n, c, m) EXCEPT !.cells[c].cursor = 0 ]

\* ---------------------------------------------------- execution pipeline
\* A run of execute: the cell whose sandbox call it awaits (at), its state
\* ("await", "done", or "aborted" when an error cut its callback chain), the
\* cells it handed to the sandbox in order (log), the calls of its completion
\* callback (cbs), and whether the registry changed while it was running.
NewRun == [ at |-> 0, st |-> "start", log |-> << >>, cbs |-> 0, mutated |-> FALSE ]

\* An `execution(view)` that would hand every view to the sandbox.
ExecutionOfAnyType(n, run, view) ==
  IF view = 0
  THEN [ n   |-> [ n EXCEPT !.execution = FALSE ],
         run |-> [ run EXCEPT !.at = 0, !.st = "done", !.cbs = @ + 1 ] ]
  ELSE [ n   |-> MoveCursorToEnd(Focus(n, view), view),
         run |-> [ run EXCEPT !.at = view, !.st = "await", !.log = Append(@, view) ] ]

\* The inner function `execution(view)` of Notebook.prototype.execute, up to
\* the point where it returns: at the end of the registry, or with a sandbox
\* call issued for a code cell. The result is the notebook and the run.
RECURSIVE Execution(_, _, _)
Execution(n, run, view) ==
  IF view = 0
  THEN [ n   |-> [ n EXCEPT !.execution = FALSE ],
         run |-> [ run EXCEPT !.at = 0, !.st = "done", !.cbs = @ + 1 ] ]
  ELSE LET n1 == MoveCursorToEnd(Focus(n, view), view)
       IN  IF n1.cells[view].type = "code"
           THEN [ n   |-> n1,
                  run |-> [ run EXCEPT !.at = view, !.st = "await", !.log = Append(@, view) ] ]
           ELSE Execution(n1, run, GetNextView(n1, view))

\* Runs that were awaiting a cell while the registry changed are marked.
MarkRuns(rs, before, after) ==
  [ i \in DOMAIN rs |->
      IF rs[i].st = "await" /\ before # after THEN [ rs[i] EXCEPT !.mutated = TRUE ]
      ELSE rs[i] ]

\* What is kept of a run that is over: its state and its callback count.
Kept(run) == IF run.st = "await" THEN run ELSE [ run EXCEPT !.log = << >>, !.mutated = FALSE ]

\* Sandbox calls of the pipeline that have not returned.
InFlight == { i \in DOMAIN runs : runs[i].st = "await" }

\* ------------------------------------------------------------- the step
\* The record of an operation: its name, the cell that raised it, its payload
\* (a text, a reference), the number of mounted cells it found, and, filled in
\* by Commit, what it did.
Op(name, c, arg, ref) ==
  [ op |-> name, c |-> c, arg |-> arg, ref |-> ref, len |-> Len(dom),
    shown |-> 0, error |-> FALSE, handedOff |-> FALSE, sent |-> << >>,
    fin |-> "none", log |-> << >>, mutated |-> FALSE, cbs |-> 0 ]

NoOp == Op("init", 0, "", 0)

\* What is recorded of an operation: all of it when the operation is
\* observed, and otherwise only what it did.
Rec(observed, name, c, arg, ref) ==
  IF observed THEN Op(name, c, arg, ref)
  ELSE [ Op("", 0, "", 0) EXCEPT !.len = 0 ]

\* The record of an operation in which run `run` came to its end.
Finished(l, run) ==
  IF run.st = "await" THEN l
  ELSE [ l EXCEPT !.fin = run.st, !.log = run.log, !.mutated = run.mutated, !.cbs = run.cbs ]

\* The cells some part of the program still refers to.
Live(n, rs) == Range(n.dom) \cup Range(n.coll) \cup { rs[i].at : i \in DOMAIN rs }

\* No observed operation has ended the observation.
Open == last.op \in {"init", ""}

\* One step of the program: the notebook becomes n, the runs rs. The step
\* stays within the budget. saveGist is one debounced function of the module:
\* a request of this notebook takes the timer over from any other notebook.
Commit(n, rs, l) ==
  /\ n.nextCid <= budget.cells + 1
  /\ UNCHANGED << budget, released >>
  /\ peer' = (peer /\ ~n.timer)
  /\ cells' = [ c \in (DOMAIN n.cells) \cap Live(n, rs) |-> n.cells[c] ]
  /\ dom' = n.dom
  /\ coll' = n.coll
  /\ uniqueId' = n.uniqueId
  /\ nextCid' = n.nextCid
  /\ focus' = n.focus
  /\ rendering' = n.rendering
  /\ execution' = n.execution
  /\ timer' = n.timer
  /\ ids' = n.ids
  /\ runs' = rs
  /\ last' = [ l EXCEPT !.shown = n.shown, !.error = n.error, !.handedOff = n.handedOff,
                         !.sent = IF l.op = "" THEN << >> ELSE n.sent ]

\* A handler raised by a mounted cell ran and left the notebook as n.
Handled(n, l) ==
  /\ Commit(n, MarkRuns(runs, coll, n.coll), l)
  /\ UNCHANGED << fetching, renders >>

Mounted == Range(dom)

MountedOf(type) == { c \in Mounted : cells[c].type = type }

\* ------------------------------------------------------------- actions
\* The state after construction (Notebook.prototype.initialize), for a
\* life of budget b.
Built(b) ==
  /\ budget = b
  /\ cells = << >>
  /\ dom = << >>
  /\ coll = << >>
  /\ uniqueId = 0
  /\ nextCid = 1
  /\ focus = 0
  /\ rendering = FALSE
  /\ execution = FALSE
  /\ timer = FALSE
  /\ fetching = 0
  /\ renders = 0
  /\ runs = << >>
  /\ ids = << >>
  /\ last = NoOp
  /\ released = FALSE
  /\ peer = FALSE

Init == Built([ cells |-> MaxCells, renders |-> MaxRenders, runs |-> 1 ])

\* The events of the cells; `o` tells whether the event is observed.
NavigateUp(o) ==
  /\ Open
  /\ \E c \in Mounted : Handled(NavigateUpHandler(Cur, c), Rec(o, "navigateUp", c, "", 0))

NavigateDown(o) ==
  /\ Open
  /\ \E c \in Mounted : Handled(NavigateDownHandler(Cur, c), Rec(o, "navigateDown", c, "", 0))

MoveUp(o) ==
  /\ Open
  /\ \E c \in Mounted :
       Handled(MoveUpHandler(Cur, c), Rec(o, "moveUp", c, "", 0))

MoveDown(o) ==
  /\ Open
  /\ \E c \in Mounted :
       Handled(MoveDownHandler(Cur, c), Rec(o, "moveDown", c, "", 0))

Clone(o) ==
  /\ Open
  /\ \E c \in Mounted :
       Handled(CloneHandler(Cur, c), Rec(o, "clone", c, "", 0))

\* view.remove() on a mounted cell.
Remove(o) ==
  /\ Open
  /\ \E c \in Mounted :
       Handled(ViewRemove(Cur, c), Rec(o, "remove", c, "", 0))

Switch(o) ==
  /\ Open
  /\ \E c \in Mounted :
       Handled(SwitchHandler(Cur, c), Rec(o, "switch", c, "", 0))

Code(o) ==
  /\ Open
  /\ \E c \in MountedOf("text"), code \in Values :
       Handled(CodeHandler(Cur, c, code), Rec(o, "code", c, code, 0))

Text(o) ==
  /\ Open
  /\ \E c \in MountedOf("code"), text \in Values :
       Handled(TextHandler(Cur, c, text), Rec(o, "text", c, text, 0))

\* A code cell finished its own execution and raised `execute`.
CellExecute(o) ==
  /\ Open
  /\ \E c \in MountedOf("code") : Handled(ExecuteHandler(Cur, c), Rec(o, "execute", c, "", 0))

BrowseUp(o) ==
  /\ Open
  /\ \E c \in MountedOf("code"), r \in Range(coll) :
       Handled(BrowseUpHandler(Cur, c, r), Rec(o, "browseUp", c, "", r))

BrowseDown(o) ==
  /\ Open
  /\ \E c \in MountedOf("code"), r \in Range(coll) :
       Handled(BrowseDownHandler(Cur, c, r), Rec(o, "browseDown", c, "", r))

\* The user types in a mounted cell: the model's value changes.
Edit(o) ==
  /\ Open
  /\ \E c \in Mounted, v \in Values :
       /\ v # cells[c].value
       /\ Handled(MoveCursorToEnd(SetValue(Cur, c, v), c), Rec(o, "edit", c, v, 0))

\* appendCodeView / appendTextView called on the notebook.
AppendCode(o) ==
  /\ Open
  /\ \E before \in Mounted \cup {0}, v \in Values :
       Handled(AppendCodeView(Cur, before, v), Rec(o, "appendCode", 0, v, before))

AppendText(o) ==
  /\ Open
  /\ \E before \in Mounted \cup {0}, v \in Values :
       Handled(AppendTextView(Cur, before, v), Rec(o, "appendText", 0, v, before))

\* Notebook.prototype.execute(cb)
Execute(o) ==
  /\ Open
  /\ Len(runs) < budget.runs
  /\ LET n0 == [ Cur EXCEPT !.execution = TRUE ]
         l  == Rec(o, "executeAll", 0, "", 0)
     IN  IF coll = << >>
         THEN Commit([ n0 EXCEPT !.error = TRUE ], runs, l)
         ELSE LET w == Execution(n0, NewRun, coll[1])
              IN  Commit(w.n, Append(runs, Kept(w.run)), Finished(l, w.run))
  /\ UNCHANGED << fetching, renders >>

\* The sandbox call a run awaits returns: the cell raises `execute`, then the
\* run's callback goes on with the next view.
Complete(o) ==
  /\ Open
  /\ \E r \in InFlight :
       LET c   == runs[r].at
           n1  == IF released THEN Cur ELSE ExecuteHandler(Cur, c)
           w   == IF n1.error
                  THEN [ n |-> n1, run |-> [ runs[r] EXCEPT !.st = "aborted", !.at = 0 ] ]
                  ELSE Execution(n1, runs[r], GetNextView(n1, c))
           run == [ w.run EXCEPT !.mutated = @ \/ coll # w.n.coll ]
       IN  /\ Len(run.log) <= MaxLog
           /\ Commit(w.n, [ MarkRuns(runs, coll, w.n.coll) EXCEPT ![r] = Kept(run) ],
                     Finished(Rec(o, "complete", c, "", r), run))
           /\ UNCHANGED << fetching, renders >>

\* Notebook.prototype.updateUser
UpdateUser(n) == Save(n)

\* doneRendering
DoneRendering(n) == [ n EXCEPT !.rendering = FALSE ]

\* The loop of renderFromGist over the deserialized cells.
RECURSIVE AppendRecords(_, _)
AppendRecords(n, recs) ==
  IF recs = << >> THEN n
  ELSE AppendRecords(
         IF Head(recs).type = "text" THEN AppendTextView(n, 0, Head(recs).value)
         ELSE AppendCodeView(n, 0, Head(recs).value),
         Tail(recs))

\* renderFromGist
RenderFromGist(n, recs) ==
  LET n1 == AppendRecords(n, recs)
      n2 == IF n1.dom = << >> THEN AppendCodeView(n1, 0, "") ELSE n1
  IN  Focus(n2, n2.coll[Len(n2.coll)])

\* View.prototype.render: the notebook's element is emptied.
ClearPresentation(n) == [ n EXCEPT !.dom = << >>, !.focus = 0 ]

\* Notebook.prototype.render, up to its return. gist.isNew() and, for a new
\* gist, gist.getNotebook() are the gist's answers.
Render(o) ==
  /\ Open
  /\ renders < budget.renders
  /\ renders' = renders + 1
  /\ LET n0 == ClearPresentation([ Cur EXCEPT !.rendering = TRUE ])
     IN  \E isNew \in BOOLEAN :
           IF isNew
           THEN \E recs \in FetchedNotebooks :
                  LET n1 == DoneRendering(RenderFromGist(UpdateUser(n0), recs))
                  IN  /\ Commit(n1, MarkRuns(runs, coll, n1.coll),
                                Rec(o, "renderNew", 0, "", 0))
                      /\ UNCHANGED fetching
           ELSE /\ Commit(n0, runs, Rec(o, "render", 0, "", 0))
                /\ fetching' = fetching + 1

\* The success callback of gist.fetch.
FetchSuccess(o) ==
  /\ Open
  /\ fetching > 0
  /\ fetching' = fetching - 1
  /\ \E recs \in FetchedNotebooks :
       LET n1 == DoneRendering(RenderFromGist(ClearPresentation(UpdateUser(Cur)), recs))
       IN  Commit(n1, MarkRuns(runs, coll, n1.coll), Rec(o, "fetched", 0, "", 0))
  /\ UNCHANGED renders

\* The error callback of gist.fetch.
FetchError(o) ==
  /\ Open
  /\ fetching > 0
  /\ fetching' = fetching - 1
  /\ Commit(DoneRendering(Cur), runs, Rec(o, "fetchError", 0, "", 0))
  /\ UNCHANGED renders

\* The user's `changeUser` event.
ChangeUser(o) ==
  /\ Open
  /\ Commit(UpdateUser(Cur), runs, Rec(o, "changeUser", 0, "", 0))
  /\ UNCHANGED << fetching, renders >>

\* A saveGist that would not ask whether the user owns the gist.
SaveGistOfAnyOwner(n, user, owner) ==
  IF ~user THEN n
  ELSE IF IsBlank(Serialize(n)) THEN n
  ELSE [ n EXCEPT !.handedOff = TRUE ]

\* A saveGist that would call gist.save without gist.setNotebook.
SaveGistWithoutNotebook(n, user, owner) ==
  IF ~user \/ ~owner THEN n
  ELSE IF IsBlank(Serialize(n)) THEN n
  ELSE [ n EXCEPT !.handedOff = TRUE ]

\* The body of saveGist: the guards, then gist.setNotebook and gist.save.
\* user is this.user.id being set, owner the answer of this.isOwner().
SaveGist(n, user, owner) ==
  IF ~user \/ ~owner THEN n
  ELSE IF IsBlank(Serialize(n)) THEN n
  ELSE [ n EXCEPT !.handedOff = TRUE, !.sent = Serialize(n) ]

\* The debounce timer expires and saveGist runs. What is recorded of it is
\* whether this.user.id was set (c) and what this.isOwner() answered (ref).
FireAs(o, user, owner) ==
  /\ Open
  /\ timer
  /\ Commit(SaveGist([ Cur EXCEPT !.timer = FALSE ], user, owner), runs,
            Rec(o, "fire", IF user THEN 1 ELSE 0, "", IF owner THEN 1 ELSE 0))
  /\ UNCHANGED << fetching, renders >>

Fire(o) == \E user \in BOOLEAN, owner \in BOOLEAN : FireAs(o, user, owner)

\* The timer expires while the user is signed in and owns the gist.
FireOwned == FireAs(TRUE, TRUE, TRUE)

\* Notebook.prototype.remove: the sandbox is removed, then View.prototype.remove
\* stops the notebook's listeners and takes its element out of the document.
Teardown(o) ==
  /\ Open
  /\ ~released
  /\ released' = TRUE
  /\ last' = Rec(o, "teardown", 0, "", 0)
  /\ UNCHANGED << cells, dom, coll, uniqueId, nextCid, focus, rendering, execution,
                  timer, fetching, renders, runs, ids, budget, peer >>

\* Another notebook of the page calls saveGist: the one timer of the module
\* is restarted and holds that notebook from now on.
PeerSave ==
  /\ Open
  /\ ~peer
  /\ peer' = TRUE
  /\ timer' = FALSE
  /\ UNCHANGED << cells, dom, coll, uniqueId, nextCid, focus, rendering, execution,
                  fetching, renders, runs, ids, last, budget, released >>

\* The timer expires while it holds the other notebook.
PeerFire ==
  /\ Open
  /\ peer
  /\ peer' = FALSE
  /\ UNCHANGED << cells, dom, coll, uniqueId, nextCid, focus, rendering, execution,
                  timer, fetching, renders, runs, ids, last, budget, released >>

\* The events a mounted cell can raise and the appends.
Events(o) ==
  \/ NavigateUp(o) \/ NavigateDown(o) \/ MoveUp(o) \/ MoveDown(o) \/ Clone(o)
  \/ Remove(o) \/ Switch(o) \/ Code(o) \/ Text(o) \/ CellExecute(o)
  \/ BrowseUp(o) \/ BrowseDown(o) \/ Edit(o) \/ AppendCode(o) \/ AppendText(o)

\* The program: a notebook view from its construction on.
Next ==
  \/ Events(FALSE)
  \/ Execute(FALSE) \/ Complete(FALSE)
  \/ Render(FALSE) \/ FetchSuccess(FALSE) \/ FetchError(FALSE)
  \/ ChangeUser(FALSE) \/ Fire(FALSE)

Spec == Init /\ [][Next]_vars

\* The life of a notebook whose cells are loaded once, appended, replaced
\* and removed, and that is never executed.
EditingNext ==
  \/ AppendCode(FALSE) \/ AppendText(FALSE) \/ Clone(FALSE) \/ Remove(FALSE)
  \/ Switch(FALSE) \/ Code(FALSE) \/ Text(FALSE) \/ CellExecute(FALSE)
  \/ Render(FALSE) \/ FetchSuccess(FALSE) \/ FetchError(FALSE)

Editing ==
  Built([ cells |-> MaxCells + 1, renders |-> 1, runs |-> 0 ]) /\ [][EditingNext]_vars

\* A notebook is loaded and then receives the events of its cells that
\* change the registry.
PopulatedNext ==
  \/ Render(FALSE) \/ FetchSuccess(FALSE)
  \/ Remove(FALSE) \/ Switch(FALSE) \/ Text(FALSE) \/ Code(FALSE) \/ Clone(FALSE)
  \/ MoveUp(FALSE) \/ MoveDown(FALSE) \/ CellExecute(FALSE)

Populated ==
  Built([ cells |-> MaxCells + 1, renders |-> 1, runs |-> 0 ]) /\ [][PopulatedNext]_vars

\* The life of a notebook that is loaded once and edited, up to one observed
\* expiry of the debounce timer.
SavingNext ==
  \/ AppendCode(FALSE) \/ AppendText(FALSE) \/ Edit(FALSE) \/ Remove(FALSE)
  \/ ChangeUser(FALSE)
  \/ Render(FALSE) \/ FetchSuccess(FALSE) \/ FetchError(FALSE)
  \/ Fire(TRUE)

Saving ==
  Built([ cells |-> MaxCells, renders |-> 1, runs |-> 0 ]) /\ [][SavingNext]_vars

\* ------------------------------------------------ notebooks in mid-life
\* The states of one cell: a variant, a content and a cursor inside it.
CellStates ==
  { s \in [ type : {"code", "text"}, value : Values, cursor : 0..1 ] :
      s.cursor <= Len(s.value) }

\* The ids of the code cells of a notebook loaded in one go: 0, 1, ... in
\* document order.
IdAt(cs, i) ==
  IF cs[i].type = "code"
  THEN Cardinality({ j \in 1..(i - 1) : cs[j].type = "code" })
  ELSE NoId

CodeCount(cs) == Cardinality({ j \in DOMAIN cs : cs[j].type = "code" })

\* A notebook of cells cs (in document order) that has been rendered and
\* edited and is at rest: nothing is pending. With awaiting, render has been
\* called again and its fetch has not come back.
Settled(cs, f, awaiting) ==
  /\ budget = [ cells |-> Len(cs) + 2, renders |-> MaxRenders, runs |-> MaxRuns ]
  /\ cells = [ i \in DOMAIN cs |->
                 [ type |-> cs[i].type, value |-> cs[i].value,
                   cursor |-> cs[i].cursor, uid |-> IdAt(cs, i) ] ]
  /\ coll = [ i \in DOMAIN cs |-> i ]
  /\ dom = IF awaiting THEN << >> ELSE [ i \in DOMAIN cs |-> i ]
  /\ uniqueId = CodeCount(cs)
  /\ nextCid = Len(cs) + 1
  /\ focus = IF awaiting THEN 0 ELSE f
  /\ rendering = awaiting
  /\ execution = FALSE
  /\ timer = FALSE
  /\ fetching = IF awaiting THEN 1 ELSE 0
  /\ renders = IF awaiting THEN 1 ELSE 0
  /\ runs = << >>
  /\ ids = [ k \in 1..CodeCount(cs) |-> k - 1 ]
  /\ last = NoOp
  /\ released = FALSE
  /\ peer = FALSE

\* Any notebook of at most MaxLen cells, at rest or awaiting its fetch.
MidLife ==
  \E len \in 0..MaxLen :
    \E cs \in [ 1..len -> CellStates ], f \in 0..len, awaiting \in BOOLEAN :
      /\ awaiting => f = 0
      /\ Settled(cs, f, awaiting)

\* One observed operation on such a notebook.
RouterNext ==
  \/ Events(TRUE)
  \/ Render(TRUE) \/ FetchSuccess(TRUE) \/ FetchError(TRUE)

Router == MidLife /\ [][RouterNext]_vars

\* A notebook of at most MaxRunLen cells at rest, on which execute is about to
\* be called: the cells' contents and cursors play no part in the pipeline.
AtRest ==
  \E len \in 0..MaxRunLen :
    \E ts \in [ 1..len -> {"code", "text"} ] :
      Settled([ i \in 1..len |-> [ type |-> ts[i], value |-> "a", cursor |-> 1 ] ], 0, FALSE)

\* A run is awaiting a cell and the registry has not changed under it.
Undisturbed == \E r \in InFlight : ~runs[r].mutated

\* The runs of execute, the sandbox's answers, and an edit that comes in
\* while a run is awaiting a cell.
ExecuteUnderRun == Undisturbed /\ CellExecute(FALSE)

RemoveUnderRun == Undisturbed /\ Remove(FALSE)

PipelineNext ==
  \/ Execute(FALSE) \/ Complete(FALSE)
  \/ ExecuteUnderRun \/ RemoveUnderRun

Pipeline == AtRest /\ [][PipelineNext]_vars

\* The runs of execute and the sandbox's answers, up to one observed
\* `execute` event of a cell.
RunningNext ==
  \/ Execute(FALSE) \/ Complete(FALSE)
  \/ CellExecute(TRUE)

Running == AtRest /\ [][RunningNext]_vars

\* The runs of execute and the sandbox's answers, with no edit by the user.
RunsNext == Execute(FALSE) \/ Complete(FALSE)

Runs == AtRest /\ [][RunsNext]_vars

\* A notebook that is executed and torn down: execute is called on a notebook
\* in use only, the sandbox's answers come in whenever they come.
ExecuteInUse == ~released /\ Execute(FALSE)

TornNext == ExecuteInUse \/ Complete(FALSE) \/ Teardown(FALSE)

Torn == AtRest /\ [][TornNext]_vars

\* A notebook whose user stays its owner: it is loaded and edited, and the
\* timer of a save that was asked for expires once the changes have stopped.
OwnedNext ==
  \/ AppendCode(FALSE) \/ AppendText(FALSE) \/ Edit(FALSE) \/ Remove(FALSE)
  \/ MoveUp(FALSE) \/ Render(FALSE) \/ FetchSuccess(FALSE)
  \/ FireOwned

Owned ==
  /\ Built([ cells |-> MaxCells, renders |-> 1, runs |-> 0 ])
  /\ [][OwnedNext]_vars
  /\ WF_vars(FireOwned)

\* Two notebooks of one page: this one is edited and saved while the other
\* one asks for saves of its own.
SharedNext ==
  \/ AppendCode(FALSE) \/ Edit(FALSE) \/ Remove(FALSE)
  \/ Render(FALSE) \/ FetchSuccess(FALSE)
  \/ Fire(TRUE) \/ PeerSave \/ PeerFire

Shared == Built([ cells |-> MaxCells, renders |-> 1, runs |-> 0 ]) /\ [][SharedNext]_vars

\* One run of execute, the sandbox's answers, and a cell inserted or removed
\* while the run is awaiting a cell.
FirstExecute == runs = << >> /\ Execute(FALSE)

InsertUnderRun == InFlight # { } /\ AppendCode(FALSE)

InsertTextUnderRun == InFlight # { } /\ AppendText(FALSE)

TraversalNext ==
  \/ FirstExecute \/ Complete(FALSE)
  \/ InsertUnderRun \/ InsertTextUnderRun \/ RemoveUnderRun

Traversal == AtRest /\ [][TraversalNext]_vars

\* ------------------------------------------------------------- claims
Last(q) == q[Len(q)]

\* The code cells of the registry, in registry order.
CodeCells == SelectSeq(coll, LAMBDA c : cells[c].type = "code")

\* C1: a run of execute during which the registry did not change handed
\* each code cell to the sandbox exactly once, in registry order, and no text
\* cell; its callback was called once, at its end and not before.
C1_RunInOrder ==
  /\ (last.fin = "done" /\ ~last.mutated) => (last.log = CodeCells /\ last.cbs = 1)
  /\ \A r \in DOMAIN runs :
       /\ runs[r].st = "await" => runs[r].cbs = 0
       /\ (runs[r].st = "await" /\ ~runs[r].mutated) =>
            /\ runs[r].at = Last(runs[r].log)
            /\ \E k \in 1..Len(CodeCells) : runs[r].log = SubSeq(CodeCells, 1, k)
       /\ runs[r].st = "done" => runs[r].cbs = 1

C1_Witness ==
  /\ last.fin = "done" /\ ~last.mutated /\ last.cbs = 1
  /\ last.log = << 1, 3 >>
  /\ coll = << 1, 2, 3 >>
  /\ cells[1].type = "code" /\ cells[2].type = "text" /\ cells[3].type = "code"

\* C2: at most one sandbox call issued by the pipeline is in flight.
C2_OneInFlight == Cardinality(InFlight) <= 1

\* C3: the k-th code cell ever appended received id k-1; a text cell has no
\* id and does not advance the counter; a cell keeps its id, and a new code
\* cell's id was never given before, whatever was removed in between.
C3_Ids ==
  [][ /\ uniqueId' = Len(ids')
      /\ \A k \in 1..Len(ids') : ids'[k] = k - 1
      /\ SubSeq(ids', 1, Len(ids)) = ids
      /\ \A c \in DOMAIN cells' :
           IF cells'[c].type = "code" THEN cells'[c].uid \in 0..(uniqueId' - 1)
           ELSE cells'[c].uid = NoId
      /\ \A c, d \in DOMAIN cells' :
           (c # d /\ cells'[c].type = "code" /\ cells'[d].type = "code")
             => cells'[c].uid # cells'[d].uid
      /\ \A c \in DOMAIN cells \cap DOMAIN cells' : cells'[c].uid = cells[c].uid
      /\ \A c \in DOMAIN cells' \ DOMAIN cells :
           cells'[c].type = "code" => cells'[c].uid >= uniqueId
      /\ uniqueId' - uniqueId =
           Cardinality({ c \in DOMAIN cells' \ DOMAIN cells : cells'[c].type = "code" }) ]_vars

C3_Witness ==
  /\ uniqueId = 2 /\ ids = << 0, 1 >>
  /\ Len(coll) = 2 /\ dom = coll
  /\ cells[coll[1]].type = "text" /\ cells[coll[1]].uid = NoId
  /\ cells[coll[2]].type = "code" /\ cells[coll[2]].uid = 1
  /\ \A c \in DOMAIN cells : cells[c].uid # 0

\* C5: after a handler of a cell event or an append returned, the registry
\* holds the cells of the presentation, in the same order.
C5_RegistryIsPresentation == [][ Events(FALSE) => coll' = dom' ]_vars

\* C10: nothing is handed to the store while the notebook is rendering.
C10_NoSaveWhileRendering == ~(last.handedOff /\ rendering)

\* The cells of q' that q does not hold.
Fresh == Range(coll') \ Range(coll)

\* C4: a `remove` event on the only remaining cell (of either variant) leaves
\* the registry and the presentation holding exactly one cell, a fresh code
\* cell that is not the removed one.
C4_RemoveOnlyCell ==
  (last.op = "remove" /\ last.len = 1) =>
    /\ Len(coll) = 1
    /\ dom = coll
    /\ coll[1] # last.c
    /\ coll[1] = nextCid - 1
    /\ cells[coll[1]].type = "code"
    /\ cells[coll[1]].value = ""

C4_Witness ==
  /\ last.op = "remove" /\ last.len = 1 /\ last.c = 1
  /\ coll = << 2 >> /\ dom = << 2 >>
  /\ cells[2].type = "code"

\* C6: `moveUp` raised on the first cell and `moveDown` raised on the last
\* cell change neither the registry order, nor the presentation order, nor
\* the focus, nor the cells, and ask for no save.
C6_MoveAtBoundary ==
  [][ ( \/ (last'.op = "moveUp" /\ dom # << >> /\ dom[1] = last'.c)
        \/ (last'.op = "moveDown" /\ dom # << >> /\ Last(dom) = last'.c) )
      => UNCHANGED << cells, dom, coll, focus, timer, uniqueId, nextCid >> ]_vars

C6_Witness ==
  /\ last.op = "moveDown" /\ last.c = 3 /\ last.len = 3
  /\ dom = << 1, 2, 3 >> /\ coll = << 1, 2, 3 >>
  /\ ~timer

\* C7: a `switch` event on the cell at position i leaves the registry with
\* the same length, a new cell of the opposite variant at position i with the
\* old cell's content and cursor offset, every other cell unchanged and in
\* its place, and the old cell in neither registry nor presentation.
C7_Switch ==
  [][ last'.op = "switch" =>
        LET c == last'.c
            i == IndexOf(coll, c)
        IN  /\ Len(coll') = Len(coll)
            /\ dom' = coll'
            /\ c \notin Range(coll') /\ c \notin Range(dom')
            /\ coll'[i] \notin DOMAIN cells
            /\ cells'[coll'[i]].type = Opposite(cells[c].type)
            /\ cells'[coll'[i]].value = cells[c].value
            /\ cells'[coll'[i]].cursor = cells[c].cursor
            /\ \A j \in 1..Len(coll) :
                 j # i => coll'[j] = coll[j] /\ cells'[coll[j]] = cells[coll[j]] ]_vars

C7_Witness ==
  /\ last.op = "switch" /\ last.c = 1 /\ last.len = 1
  /\ coll = << 2 >> /\ dom = << 2 >>
  /\ cells[2].type = "text" /\ cells[2].value = "a" /\ cells[2].cursor = 0

\* The code cells of the registry before (after) the cell at position i.
CodeBefore(i) == { j \in 1..(i - 1) : cells[coll[j]].type = "code" }

CodeAfter(i) == { j \in (i + 1)..Len(coll) : cells[coll[j]].type = "code" }

Greatest(S) == CHOOSE x \in S : \A y \in S : y <= x

Least(S) == CHOOSE x \in S : \A y \in S : x <= y

\* C8: `browseUp` (`browseDown`) with reference cell r shows, in the raising
\* code cell, the nearest code cell strictly before (after) r in registry
\* order; when there is none, nothing changes.
C8_Browse ==
  [][ /\ last'.op = "browseUp" =>
           LET S == CodeBefore(IndexOf(coll, last'.ref))
           IN  IF S = { }
               THEN last'.shown = 0 /\ UNCHANGED << cells, dom, coll, focus, timer >>
               ELSE last'.shown = coll[Greatest(S)] /\ UNCHANGED << dom, coll >>
      /\ last'.op = "browseDown" =>
           LET S == CodeAfter(IndexOf(coll, last'.ref))
           IN  IF S = { }
               THEN last'.shown = 0 /\ UNCHANGED << cells, dom, coll, focus, timer >>
               ELSE last'.shown = coll[Least(S)] /\ UNCHANGED << dom, coll >> ]_vars

C8_Witness ==
  /\ last.op = "browseUp" /\ last.c = 3 /\ last.ref = 4 /\ last.shown = 3
  /\ coll = << 1, 2, 3, 4 >>
  /\ cells[1].type = "code" /\ cells[2].type = "text"
  /\ cells[3].type = "code" /\ cells[4].type = "code"

\* C9: a `code` event on a text cell inserts exactly one new code cell, seeded
\* with the payload, right after the text cell iff the payload is not empty or
\* the text cell is the last cell; the text cell is then removed iff its own
\* content is empty.
C9_Code ==
  [][ last'.op = "code" =>
        LET c        == last'.c
            i        == IndexOf(coll, c)
            inserts  == last'.arg # "" \/ Last(coll) = c
            removes  == cells[c].value = ""
            at       == IF removes THEN i ELSE i + 1
        IN  /\ dom' = coll'
            /\ (c \in Range(coll')) <=> ~removes
            /\ IF inserts
               THEN /\ Cardinality(Fresh) = 1
                    /\ coll'[at] \in Fresh
                    /\ cells'[coll'[at]].type = "code"
                    /\ cells'[coll'[at]].value = last'.arg
               ELSE Fresh = { }
            /\ Len(coll') = Len(coll) + (IF inserts THEN 1 ELSE 0) - (IF removes THEN 1 ELSE 0)
            /\ ~removes => coll'[i] = c ]_vars

C9_Witness ==
  /\ last.op = "code" /\ last.c = 1 /\ last.arg = "" /\ last.len = 1
  /\ coll = << 2 >> /\ dom = << 2 >>
  /\ cells[2].type = "code" /\ cells[2].value = ""

\* C11: when the debounce timer expires the registry is handed to the store
\* if and only if, at that moment, an identity is set, it is the owner, and
\* the serialized registry is not blank.
C11_HandOffGuards ==
  last.op = "fire" =>
    (last.handedOff <=> (last.c = 1 /\ last.ref = 1 /\ ~IsBlank(Serialize(Cur))))

C11_Witness ==
  /\ last.op = "fire" /\ last.handedOff /\ last.c = 1 /\ last.ref = 1
  /\ Len(coll) = 2 /\ cells[coll[1]].value = "" /\ cells[coll[2]].value = "a"

\* C12: an `execute` event of a code cell changes nothing while a run of
\* execute is in progress; with no run in progress it appends one empty code
\* cell at the end and focuses it when the cell is the last one, and
\* otherwise only moves the focus to the next cell, at its start.
C12_CellExecute ==
  [][ last'.op = "execute" =>
        LET c == last'.c
        IN  IF InFlight # { }
            THEN UNCHANGED << cells, dom, coll, focus, uniqueId >>
            ELSE IF Last(dom) = c
                 THEN /\ coll' = Append(coll, nextCid)
                      /\ dom' = Append(dom, nextCid)
                      /\ cells'[nextCid].type = "code"
                      /\ cells'[nextCid].value = ""
                      /\ focus' = nextCid
                      /\ \A d \in Range(coll) : cells'[d] = cells[d]
                 ELSE /\ UNCHANGED << dom, coll, uniqueId >>
                      /\ focus' = GetNext(coll, c)
                      /\ cells' = [ cells EXCEPT ![focus'].cursor = 0 ] ]_vars

\* Registry r and presentation d hold one cell of cs per record of recs,
\* with the record's variant and content, in record order.
HoldsRecords(recs, r, d, cs) ==
  /\ Len(r) = Len(recs)
  /\ d = r
  /\ \A i \in 1..Len(recs) :
       /\ cs[r[i]].type = recs[i].type
       /\ cs[r[i]].value = recs[i].value

\* C13: after the fetch of render succeeded, registry and presentation hold
\* exactly one cell per deserialized record (one empty code cell when there
\* is no record) and the notebook is no longer rendering, whatever the
\* registry held before.
C13_RenderedFromRecords ==
  [][ FetchSuccess(FALSE) =>
        /\ ~rendering'
        /\ \E recs \in FetchedNotebooks :
             HoldsRecords(IF recs = << >> THEN << [type |-> "code", value |-> ""] >>
                          ELSE recs, coll', dom', cells') ]_vars

\* C14: a run of execute comes to the end of the registry when the user
\* edits nothing: the registry a run is awaiting a cell of has not changed
\* since the run started, so that the end the run walks to stays where it is.
C14_RegistryStaysUnderRun == \A r \in InFlight : ~runs[r].mutated

\* C15: execute on an empty registry raises no error, and the notebook is
\* executing only while a run of execute is in progress.
C15_EmptyExecute ==
  /\ coll = << >> => ~last.error
  /\ execution => InFlight # { }

\* Run r went on in this step: the call it was awaiting returned.
WentOn(r) == runs'[r].st # "await" \/ runs'[r].log # runs[r].log

\* The places of the registry after this step that hold a code cell and come
\* after cell c.
CodeAfterNow(c) ==
  { j \in 1..Len(coll') : j > IndexOf(coll', c) /\ cells'[coll'[j]].type = "code" }

\* C16: when the call of cell c returns, the run goes on with the registry
\* as it is now: the next cell handed to the sandbox is the first code cell
\* after c in the present registry (a cell inserted after c included, a
\* removed cell never), and the run is over when there is none.
C16_LiveTraversal ==
  [][ \A r \in InFlight :
        (WentOn(r) /\ runs[r].at \in Range(coll')) =>
          LET S == CodeAfterNow(runs[r].at)
          IN  IF S = { } THEN runs'[r].st = "done"
              ELSE /\ runs'[r].st = "await"
                   /\ runs'[r].at = coll'[Least(S)]
                   /\ runs'[r].log = Append(runs[r].log, coll'[Least(S)]) ]_vars

C16_Witness ==
  /\ coll = << 1, 4, 3 >>
  /\ cells[1].type = "code" /\ cells[4].type = "code" /\ cells[3].type = "code"
  /\ \E r \in InFlight : runs[r].log = << 1, 4 >> /\ runs[r].at = 4

\* C17: once a render has populated the notebook the registry holds a cell
\* after every handler: a load that succeeds leaves a cell in the registry,
\* and no event, whatever came before it, takes the last one away.
C17_NeverEmpty ==
  [][ (coll # << >> \/ FetchSuccess(FALSE)) => coll' # << >> ]_vars

C17_Witness ==
  /\ Len(coll) = 1 /\ dom = coll /\ coll[1] > 2
  /\ cells[coll[1]].type = "code" /\ cells[coll[1]].value = ""

\* C18: once the notebook is torn down no run hands another cell to the
\* sandbox: a run that awaited a cell at the teardown stops there.
C18_NoCallAfterRelease ==
  [][ released => \A r \in InFlight :
                    runs'[r].st = "await" => runs'[r].log = runs[r].log ]_vars

\* C19: a save this notebook has asked for stays pending until its own timer
\* expires, whatever another notebook of the page asks for meanwhile.
C19_OwnPendingSave ==
  [][ (timer /\ ~timer') => last'.op = "fire" ]_vars

\* This step takes a cell out of the registry, reorders the registry, or
\* changes the content of one of its cells.
RegistryChanges ==
  \/ \E c \in Range(coll) : c \notin Range(coll')
  \/ Range(coll') = Range(coll) /\ coll' # coll
  \/ \E c \in Range(coll) \cap Range(coll') : cells'[c].value # cells[c].value

\* C20: a change of the registry made while the notebook is not rendering
\* asks for a save, and once the changes have stopped the save is made, one
\* for all the changes, with the registry as the last change left it (when
\* that registry serializes to something).
C20_EventuallySaved ==
  /\ [][ (~rendering /\ RegistryChanges) => timer' ]_vars
  /\ timer ~> ( /\ last.op = "fire" /\ ~timer
                /\ last.handedOff = ~IsBlank(Serialize(Cur))
                /\ last.handedOff => last.sent = Serialize(Cur) )

C20_Witness ==
  /\ last.op = "fire" /\ last.handedOff /\ ~timer
  /\ Len(coll) = 2 /\ last.sent = Serialize(Cur)
  /\ cells[coll[1]].value = "a"

====
